---- MODULE Spec2Model ----
(***************************************************************************)
(* The Program Advisor wizard of src/app.py (lines 1-238): a Streamlit     *)
(* script that is run top to bottom once per user interaction and once per *)
(* st.rerun().  The session state (stage, form_data) survives between      *)
(* script runs; everything else is recomputed by each run.                 *)
(*                                                                         *)
(* One action of the model is one script run: Render is a run that no      *)
(* widget triggered (the first page load, or the run st.rerun() queued);   *)
(* the other actions are the runs triggered by a form submit or a button.  *)
(* The model covers sessions in which the API key is configured (lines     *)
(* 11-18 succeed); without a key every run stops at line 18.               *)
(***************************************************************************)
EXTENDS Integers, Sequences, FiniteSets, TLC

VARIABLES
    missing,    \* the CSV files absent from disk when load_data first runs
    stage,      \* st.session_state.stage
    form_data,  \* st.session_state.form_data: a function from keys to values
    clicked,    \* the widget that triggered the last script run
    submitted,  \* the values of the form that run read from its widgets
    pending,    \* TRUE while a script run is queued (page load or st.rerun())
    status,     \* how the last script run ended
    rendered,   \* the UI elements the last script run put on the page
    calls,      \* the prompts the last script run handed to generate_content
    results,    \* what generate_content returned for each of those calls
    goal_read,  \* the values data.get('goal') returned in the last script run
    built,      \* the single_lesson_prompt values the last script run built
    shown,      \* the content sections of the last script run, in order
    path,       \* the stages visited since the last reset
    prevPath,   \* the stages visited by the wizard run the last reset ended
    prevTime,   \* the time answer of the wizard run the last reset ended
    lookup      \* one call of find_problem_recommendation: arguments and outcome

vars == <<missing, stage, form_data, clicked, submitted, pending, status,
          rendered, calls, results, goal_read, built, shown, path, prevPath,
          prevTime, lookup>>

----------------------------------------------------------------------------
(* Values *)

\* Python's None; str(None) is "None"
None == "<None>"

\* the two reference tables, src/app.py:26-27
RecommendationsFile == "recommendations_final.csv"
ProblemRecFile == "problem_recommendations_final.csv"
DataFiles == {RecommendationsFile, ProblemRecFile}

\* the roles of the select box
q1_options ==
    <<"Dermatologist", "Facialist", "Esthetician", "Skincare Coach",
      "Skincare Influencer", "Other">>

\* how many of the six roles the model lets the user pick
NumRoles == 2

\* the values of the role select box: a role, or None while the box is left
\* at its placeholder (index=None)
RoleValues == {q1_options[i] : i \in 1..NumRoles} \cup {None}

q2_options == {"Educational content", "Hands-on techniques", "A combination of both"}

T12 == "1-2 hours"
T34 == "3-4 hours a week"
T810 == "8-10 hours a week"
q3_options == {T12, T34, T810}

\* Free text is a sequence of characters; <<>> is the empty string.
ProblemTexts == {<<>>, <<"A", "b">>, <<"c">>}
ExpertiseTexts == {"", "aging skin"}
DeepDiveTexts == {"", "text"}

\* the widgets that can trigger a script run: the submit buttons of the two
\* forms (expert_form_1, expert_form_2) and the three plain buttons
NextStep == "Next Step"
SingleLessonButton == "Create a Single Lesson"
FullProgramButton == "Outline a Full 12-Lesson Program"
GenerateButton == "Generate My Program Blueprint"
StartOverButton == "Start Over"

----------------------------------------------------------------------------
(* Dictionaries *)

EmptyDict == <<>>

\* dict.get(key, default)
Get(d, k, default) == IF k \in DOMAIN d THEN d[k] ELSE default

\* dict.update(u)
Update(d, u) ==
    [k \in (DOMAIN d) \cup (DOMAIN u) |-> IF k \in DOMAIN u THEN u[k] ELSE d[k]]

\* an assignment that replaces the whole dict by the one entry
SetKey_replaces_dict(d, k, v) == [x \in {k} |-> v]

\* d[key] = value
SetKey(d, k, v) == [x \in (DOMAIN d) \cup {k} |-> IF x = k THEN v ELSE d[x]]

----------------------------------------------------------------------------
(* Helper functions *)

\* load_data: both tables, or (None, None) when a file is not found
load_data(absent) ==
    IF absent = {}
    THEN <<"recommendations_df", "problem_rec_df">>
    ELSE <<None, None>>

\* Python truthiness of the tuple load_data returns: a tuple is falsy only
\* when it is empty
Truthy(result) == Len(result) > 0

\* generate_content: the completion text, or None when the call raised
\* (the exception is caught and reported by st.error)
GenerationOutcomes == {"ok", "error"}
generate_content(prompt, outcome) ==
    IF outcome = "ok" THEN [text |-> "completion", of |-> prompt] ELSE [text |-> None]

\* "if creative_content:"
HasContent(content) == content.text # None

----------------------------------------------------------------------------
(* The matcher *)

\* str.lower() on one character
Lower(c) == CASE c = "A" -> "a" [] c = "B" -> "b" [] c = "C" -> "c" [] OTHER -> c
LowerText(t) == [i \in 1..Len(t) |-> Lower(t[i])]

\* Python's "k in t" on strings
IsSubstring(k, t) ==
    \E i \in 0..(Len(t) - Len(k)) : \A j \in 1..Len(k) : t[i + j] = k[j]

\* a Python value handed to the matcher: a str carries its characters
StrValue(chars) == [type |-> "str", chars |-> chars]

\* values of other types: None, an int, a list
NoneValue == [type |-> "NoneType"]
IntValue(n) == [type |-> "int", int |-> n]
ListValue(items) == [type |-> "list", items |-> items]

\* "not v": Python's truth test of a value
Falsy(v) ==
    CASE v.type = "str" -> v.chars = <<>>
      [] v.type = "NoneType" -> TRUE
      [] v.type = "int" -> v.int = 0
      [] v.type = "list" -> v.items = <<>>

\* the guard of find_problem_recommendation without its isinstance test
EarlyReturn_without_isinstance(user_problem_text) == Falsy(user_problem_text)

\* "if not user_problem_text or not isinstance(user_problem_text, str)"
EarlyReturn(user_problem_text) ==
    Falsy(user_problem_text) \/ user_problem_text.type # "str"

\* the rows of the keyword table (the table's content is data, not code)
problem_rec_rows ==
    << [problem_keyword |-> <<"B">>, recommended_content |-> "content 1",
        recommended_program |-> "program 1"],
       [problem_keyword |-> <<"a", "b">>, recommended_content |-> "content 2",
        recommended_program |-> "program 2"] >>

\* the scan with the operands of "in" exchanged: the text is looked for in
\* the keyword
RECURSIVE FirstMatchFrom_text_in_keyword(_, _, _)
FirstMatchFrom_text_in_keyword(text, rows, i) ==
    IF i > Len(rows) THEN 0
    ELSE IF IsSubstring(LowerText(text), LowerText(rows[i].problem_keyword)) THEN i
    ELSE FirstMatchFrom_text_in_keyword(text, rows, i + 1)

\* the scan that goes on after a match, so that the last matching row wins
RECURSIVE FirstMatchFrom_last_wins(_, _, _)
FirstMatchFrom_last_wins(text, rows, i) ==
    IF i > Len(rows) THEN 0
    ELSE LET later == FirstMatchFrom_last_wins(text, rows, i + 1)
         IN IF later # 0 THEN later
            ELSE IF IsSubstring(LowerText(rows[i].problem_keyword), LowerText(text))
                 THEN i
                 ELSE 0

\* the scan with "==" in place of "in": the keyword has to be the whole text
RECURSIVE FirstMatchFrom_keyword_is_text(_, _, _)
FirstMatchFrom_keyword_is_text(text, rows, i) ==
    IF i > Len(rows) THEN 0
    ELSE IF LowerText(rows[i].problem_keyword) = LowerText(text) THEN i
    ELSE FirstMatchFrom_keyword_is_text(text, rows, i + 1)

\* the index of the first row from position i on whose keyword, lower-cased,
\* occurs in the lower-cased text; 0 when there is none
RECURSIVE FirstMatchFrom(_, _, _)
FirstMatchFrom(text, rows, i) ==
    IF i > Len(rows) THEN 0
    ELSE IF IsSubstring(LowerText(rows[i].problem_keyword), LowerText(text)) THEN i
    ELSE FirstMatchFrom(text, rows, i + 1)

\* find_problem_recommendation: the index of the row returned, 0 for None
find_problem_recommendation(user_problem_text, rows) ==
    IF EarlyReturn(user_problem_text) THEN 0
    ELSE FirstMatchFrom(user_problem_text.chars, rows, 1)

\* A keyword table as the matcher receives it: the data frame read from the
\* CSV file, or None in place of it when load_data found a file missing.
Table(loaded, rows) == [loaded |-> loaded, rows |-> rows]

\* whether a call of the matcher raises: past the guard, None has no
\* iterrows() and, with a row to look at, a value that is no str has no lower()
matcher_raises(user_problem_text, table) ==
    /\ ~EarlyReturn(user_problem_text)
    /\ \/ ~table.loaded
       \/ table.rows # <<>> /\ user_problem_text.type # "str"

\* the outcome of one call: raised, or the index of the row returned (0: None)
matcher_call(user_problem_text, table) ==
    IF matcher_raises(user_problem_text, table)
    THEN [raised |-> TRUE, row |-> 0]
    ELSE [raised |-> FALSE,
          row |-> find_problem_recommendation(user_problem_text, table.rows)]

\* the lookup variable while no call of the matcher is being followed
NoLookup ==
    [phase |-> "none", value |-> NoneValue, table |-> Table(FALSE, <<>>),
     raised |-> FALSE, row |-> 0]

----------------------------------------------------------------------------
(* The prompts of the terminal stage *)

\* an f-string's rendering of a value: str(None) is "None"
Format(v) == IF v = None THEN "None" ELSE v

\* base_prompt_info: the expert's answers every prompt embeds
base_prompt_info(data) ==
    [role |-> Format(Get(data, "role", None)),
     method |-> Format(Get(data, "method", None)),
     problem |-> Get(data, "problem", <<"N", "o", "n", "e">>),
     expertise |-> Format(Get(data, "expertise", None))]

\* single_lesson_prompt: the educational template when the method is
\* "Educational content", the hands-on template for every other method
single_lesson_prompt(data) ==
    IF Get(data, "method", None) = "Educational content"
    THEN [kind |-> "single_lesson", template |-> "educational",
          info |-> base_prompt_info(data),
          tasks |-> <<"lesson length 5-12 minutes", "4-5 concrete lesson ideas">>]
    ELSE [kind |-> "single_lesson", template |-> "hands_on",
          info |-> base_prompt_info(data),
          tasks |-> <<"lesson description 3-4 sentences", "4 titles with taglines">>]

\* full_program_prompt: embeds point_a, point_b and method_desc as formatted
full_program_prompt(data) ==
    [kind |-> "full_program", template |-> "full_program",
     info |-> base_prompt_info(data),
     point_a |-> Format(Get(data, "point_a", None)),
     point_b |-> Format(Get(data, "point_b", None)),
     method_desc |-> Format(Get(data, "method_desc", None)),
     structure |-> "12 lessons over one month, 3 per week",
     tasks |-> <<"program description 3-4 sentences", "4 titles with taglines",
                 "4-week outline, 3 lessons per week">>]

\* the page elements of one generation call: its heading, then the result in
\* a container when there is one
Section(heading, content) ==
    IF HasContent(content)
    THEN << [kind |-> "heading", text |-> heading],
            [kind |-> "content", markdown |-> content] >>
    ELSE << [kind |-> "heading", text |-> heading] >>

Part1Heading == "Part 1: Your Single Lesson Content"
FullHeading == "Your Full Program Content & Outline"
Part2Heading == "Part 2: Your Full Program Outline"

\* which branch of the dispatch at the end of the terminal stage is taken
Dispatch(data) ==
    IF Get(data, "goal", None) = "single_lesson" \/ Get(data, "time", None) = T12
    THEN "single_lesson"
    ELSE IF Get(data, "goal", None) = "full_program" THEN "full_program"
    ELSE IF Get(data, "goal", None) = "combo" THEN "combo"
    ELSE "none"

\* the generate_content calls of the dispatch, in the order they are made
GenerationCalls(data) ==
    CASE Dispatch(data) = "single_lesson" -> <<single_lesson_prompt(data)>>
      [] Dispatch(data) = "full_program" -> <<full_program_prompt(data)>>
      [] Dispatch(data) = "combo" ->
             <<single_lesson_prompt(data), full_program_prompt(data)>>
      [] OTHER -> <<>>

\* what the generate_content calls of the dispatch return, in order
GenerationResults(data, o1, o2) ==
    CASE Dispatch(data) = "single_lesson" ->
             <<generate_content(single_lesson_prompt(data), o1)>>
      [] Dispatch(data) = "full_program" ->
             <<generate_content(full_program_prompt(data), o1)>>
      [] Dispatch(data) = "combo" ->
             <<generate_content(single_lesson_prompt(data), o1),
               generate_content(full_program_prompt(data), o2)>>
      [] OTHER -> <<>>

\* GeneratedSections in which a failed first call of the combo branch ends
\* the branch: the second part is not shown
GeneratedSections_stops_after_failure(data, o1, o2) ==
    CASE Dispatch(data) = "single_lesson" ->
             Section(Part1Heading, generate_content(single_lesson_prompt(data), o1))
      [] Dispatch(data) = "full_program" ->
             Section(FullHeading, generate_content(full_program_prompt(data), o1))
      [] Dispatch(data) = "combo" ->
             Section(Part1Heading, generate_content(single_lesson_prompt(data), o1))
             \o (IF o1 = "ok"
                 THEN Section(Part2Heading,
                              generate_content(full_program_prompt(data), o2))
                 ELSE <<>>)
      [] OTHER -> <<>>

\* the sections the dispatch puts on the page; o1 and o2 are the outcomes of
\* the first and the second generation call
GeneratedSections(data, o1, o2) ==
    CASE Dispatch(data) = "single_lesson" ->
             Section(Part1Heading, generate_content(single_lesson_prompt(data), o1))
      [] Dispatch(data) = "full_program" ->
             Section(FullHeading, generate_content(full_program_prompt(data), o1))
      [] Dispatch(data) = "combo" ->
             Section(Part1Heading, generate_content(single_lesson_prompt(data), o1))
             \o Section(Part2Heading, generate_content(full_program_prompt(data), o2))
      [] OTHER -> <<>>

\* the "Key Recommendations" box: the content-type line for the matched row
RecommendationSections(data) ==
    LET row == find_problem_recommendation(
                   StrValue(Get(data, "problem", <<>>)), problem_rec_rows)
    IN  IF row = 0 THEN <<>>
        ELSE IF Get(data, "goal", None) \in {"full_program", "combo"}
                \/ Get(data, "time", None) = T810
        THEN << [kind |-> "info",
                 text |-> "Recommended Content Type (for Full Program)",
                 value |-> problem_rec_rows[row].recommended_program] >>
        ELSE << [kind |-> "info",
                 text |-> "Recommended Content Type (for Single Lesson)",
                 value |-> problem_rec_rows[row].recommended_content] >>

\* the values data.get('goal') returns in a terminal-stage run that gets to
\* the dispatch: one read at line 151 when a row matched, one at line 207,
\* one more at line 214 when the first branch is not taken and one more at
\* line 221 when the second is not taken either
GoalReads(data) ==
    LET g == Get(data, "goal", None)
        row == find_problem_recommendation(
                   StrValue(Get(data, "problem", <<>>)), problem_rec_rows)
        n == (IF row = 0 THEN 0 ELSE 1) + 1
             + (IF Dispatch(data) = "single_lesson" THEN 0 ELSE 1)
             + (IF Dispatch(data) \in {"single_lesson", "full_program"} THEN 0 ELSE 1)
    IN  [i \in 1..n |-> g]

\* the terminal stage raises before any generation call when a table is
\* None: None.iterrows() for a non-empty problem text, None[...] for the
\* time-based lookup
Stage3Raises(data, tables) ==
    \/ Get(data, "problem", <<>>) # <<>> /\ tables[2] = None
    \/ tables[1] = None

\* the rows of the time-based table (data): one row per time bucket
recommendations_rows ==
    << [condition_time |-> T12, recommendation_text |-> "advice 1-2"],
       [condition_time |-> T34, recommendation_text |-> "advice 3-4"],
       [condition_time |-> T810, recommendation_text |-> "advice 8-10"] >>

\* the time-based advice: the first row whose condition_time is the time answer
TimeSections(data) ==
    LET hits == {i \in 1..Len(recommendations_rows) :
                    recommendations_rows[i].condition_time = Get(data, "time", None)}
    IN  IF hits = {} THEN <<>>
        ELSE << [kind |-> "success",
                 text |-> recommendations_rows[
                     CHOOSE i \in hits : \A j \in hits : i <= j].recommendation_text] >>

\* everything the terminal stage shows between its header and Start Over
Stage3Page(data, o1, o2) ==
    TimeSections(data) \o RecommendationSections(data) \o GeneratedSections(data, o1, o2)

----------------------------------------------------------------------------
(* Stage transitions *)

\* stage0_next with the decision stage skipped: "3-4 hours a week" falls
\* through to the terminal stage
stage0_next_skips_decision(answer3) ==
    IF answer3 = T810 THEN 2 ELSE 3

\* stage0_next with the targets of its first two branches exchanged
stage0_next_swapped(answer3) ==
    IF answer3 = T34 THEN 2
    ELSE IF answer3 = T810 THEN 1
    ELSE 3

\* stage0_next that looks at what an earlier wizard run left behind: once a
\* run has been completed, "3-4 hours a week" goes straight to the deep dive
stage0_next_remembers_run(answer3) ==
    IF answer3 = T34 THEN (IF prevPath = <<>> THEN 1 ELSE 2)
    ELSE IF answer3 = T810 THEN 2
    ELSE 3

\* the stage a stage-0 submission leads to, decided by the time answer alone
stage0_next(answer3) ==
    IF answer3 = T34 THEN 1
    ELSE IF answer3 = T810 THEN 2
    ELSE 3

\* stage1_next with the two buttons' targets exchanged
stage1_next_swapped(button) == IF button = SingleLessonButton THEN 2 ELSE 3

\* stage1_next in which the full-program button leads back to the profile form
stage1_next_goes_back(button) == IF button = SingleLessonButton THEN 3 ELSE 0

\* the stage each stage-1 button leads to
stage1_next(button) == IF button = SingleLessonButton THEN 3 ELSE 2

\* the goal each stage-1 button stores
stage1_goal(button) ==
    IF button = SingleLessonButton THEN "single_lesson" ELSE "full_program"

\* stage2_goal that keeps a goal chosen at stage 1 instead of overriding it
stage2_goal_keeps_choice(data) ==
    IF "goal" \in DOMAIN data THEN data["goal"]
    ELSE IF Get(data, "time", None) = T34 THEN "combo" ELSE "full_program"

\* the goal a stage-2 submission stores, decided by the stored time answer
stage2_goal(data) ==
    IF Get(data, "time", None) = T34 THEN "combo" ELSE "full_program"

\* start_over that resets the stage and forgets to clear the answers
start_over_keeps_answers(s, data) == [stage |-> 0, form_data |-> data]

\* start_over that goes back to the decision stage instead of stage 0
start_over_to_decision(s, data) == [stage |-> 1, form_data |-> EmptyDict]

\* Start Over: the session state it leaves
start_over(s, data) == [stage |-> 0, form_data |-> EmptyDict]

\* the error box load_data leaves on every page when a file was not found
LoadMessages == IF missing = {} THEN {} ELSE {"load_error"}

\* StageWidgets with the Start Over button also on the page of stage 2
StageWidgets_with_start_over(s) ==
    CASE s = 0 -> {NextStep}
      [] s = 1 -> {SingleLessonButton, FullProgramButton}
      [] s = 2 -> {GenerateButton, StartOverButton}
      [] OTHER -> {}

\* the widgets a script run puts on the page at each of the stages 0 to 2
StageWidgets(s) ==
    CASE s = 0 -> {NextStep}
      [] s = 1 -> {SingleLessonButton, FullProgramButton}
      [] s = 2 -> {GenerateButton}
      [] OTHER -> {}

\* the widgets of a terminal-stage run that got as far as its last line
Stage3Widgets == {"blueprint", StartOverButton}

----------------------------------------------------------------------------
(* Script runs *)

Init ==
    /\ missing \in SUBSET DataFiles
    /\ stage = 0
    /\ form_data = EmptyDict
    /\ clicked = "none"
    /\ submitted = EmptyDict
    /\ pending = TRUE
    /\ status = "start"
    /\ rendered = {}
    /\ calls = <<>>
    /\ results = <<>>
    /\ goal_read = <<>>
    /\ built = <<>>
    /\ shown = <<>>
    /\ path = <<0>>
    /\ prevPath = <<>>
    /\ prevTime = None
    /\ lookup = NoLookup

\* A script run no widget triggered: it renders the page of the current stage.
Render ==
    /\ pending
    /\ pending' = FALSE
    /\ clicked' = "none"
    /\ submitted' = EmptyDict
    /\ UNCHANGED <<missing, stage, form_data, path, prevPath, prevTime, lookup>>
    /\ IF ~Truthy(load_data(missing))
       THEN /\ status' = "stopped"
            /\ rendered' = LoadMessages
            /\ calls' = <<>>
            /\ shown' = <<>>
            /\ results' = <<>>
            /\ goal_read' = <<>>
            /\ built' = <<>>
       ELSE IF stage # 3
       THEN /\ status' = "done"
            /\ rendered' = LoadMessages \cup StageWidgets(stage)
            /\ calls' = <<>>
            /\ shown' = <<>>
            /\ results' = <<>>
            /\ goal_read' = <<>>
            /\ built' = <<>>
       ELSE IF Stage3Raises(form_data, load_data(missing))
       THEN /\ status' = "exception"
            /\ rendered' = LoadMessages \cup {"blueprint"}
            /\ calls' = <<>>
            /\ shown' = <<>>
            /\ results' = <<>>
            /\ goal_read' = <<>>
            /\ built' = <<>>
       ELSE \E o1, o2 \in GenerationOutcomes :
            /\ status' = "done"
            /\ rendered' = LoadMessages \cup Stage3Widgets
            /\ calls' = GenerationCalls(form_data)
            /\ results' = GenerationResults(form_data, o1, o2)
            /\ goal_read' = GoalReads(form_data)
            /\ built' = <<single_lesson_prompt(form_data)>>
            /\ shown' = Stage3Page(form_data, o1, o2)

\* The run a widget triggers ends in st.rerun() after changing the session
\* state; it makes no generation call unless it is a terminal-stage run.
Triggered(widget) ==
    /\ ~pending
    /\ widget \in rendered
    /\ clicked' = widget
    /\ pending' = TRUE
    /\ status' = "rerun"
    /\ UNCHANGED <<missing, rendered, lookup>>

\* "Next Step" of the stage-0 form: the answers are stored as submitted and
\* the time answer picks the next stage
Submit0 ==
    \E answer1 \in RoleValues, answer2 \in q2_options, answer3 \in q3_options,
       answer4 \in ProblemTexts, answer5 \in ExpertiseTexts :
        /\ stage = 0
        /\ Triggered(NextStep)
        /\ submitted' = [role |-> answer1, method |-> answer2, time |-> answer3,
                         problem |-> answer4, expertise |-> answer5]
        /\ form_data' = Update(form_data, submitted')
        /\ stage' = stage0_next(answer3)
        /\ path' = Append(path, stage')
        /\ calls' = <<>>
        /\ shown' = <<>>
        /\ results' = <<>>
        /\ goal_read' = <<>>
        /\ built' = <<>>
        /\ UNCHANGED <<prevPath, prevTime>>

\* one of the two buttons of the decision stage
Choose(button) ==
    /\ stage = 1
    /\ Triggered(button)
    /\ submitted' = EmptyDict
    /\ form_data' = SetKey(form_data, "goal", stage1_goal(button))
    /\ stage' = stage1_next(button)
    /\ path' = Append(path, stage')
    /\ calls' = <<>>
    /\ shown' = <<>>
    /\ results' = <<>>
    /\ goal_read' = <<>>
    /\ built' = <<>>
    /\ UNCHANGED <<prevPath, prevTime>>

ChooseSingleLesson == Choose(SingleLessonButton)

ChooseFullProgram == Choose(FullProgramButton)

\* "Generate My Program Blueprint" of the stage-2 form
Submit2 ==
    \E point_a \in DeepDiveTexts, point_b \in DeepDiveTexts,
       method_desc \in DeepDiveTexts :
        LET answers == [point_a |-> point_a, point_b |-> point_b,
                        method_desc |-> method_desc]
            updated == Update(form_data, answers)
        IN  /\ stage = 2
            /\ Triggered(GenerateButton)
            /\ submitted' = answers
            /\ form_data' = SetKey(updated, "goal", stage2_goal(updated))
            /\ stage' = 3
            /\ path' = Append(path, stage')
            /\ calls' = <<>>
            /\ shown' = <<>>
            /\ results' = <<>>
            /\ goal_read' = <<>>
            /\ built' = <<>>
            /\ UNCHANGED <<prevPath, prevTime>>

\* "Start Over": the run it triggers executes the terminal stage again, the
\* generation calls included, before it reaches the button and resets
StartOver ==
    \E o1, o2 \in GenerationOutcomes :
        /\ Triggered(StartOverButton)
        /\ submitted' = EmptyDict
        /\ calls' = GenerationCalls(form_data)
        /\ results' = GenerationResults(form_data, o1, o2)
        /\ goal_read' = GoalReads(form_data)
        /\ built' = <<single_lesson_prompt(form_data)>>
        /\ shown' = Stage3Page(form_data, o1, o2)
        /\ stage' = start_over(stage, form_data).stage
        /\ form_data' = start_over(stage, form_data).form_data
        /\ prevPath' = path
        /\ prevTime' = Get(form_data, "time", None)
        /\ path' = <<0>>

Next ==
    \/ Render
    \/ Submit0
    \/ ChooseSingleLesson
    \/ ChooseFullProgram
    \/ Submit2
    \/ StartOver

Spec == Init /\ [][Next]_vars

\* The session with a user who goes on: a queued script run is executed, and
\* a form or a pair of buttons that stays on the page is eventually used.
\* Start Over is left to the user's choice.
FairSpec ==
    /\ Spec
    /\ WF_vars(Render)
    /\ WF_vars(Submit0)
    /\ WF_vars(ChooseSingleLesson \/ ChooseFullProgram)
    /\ WF_vars(Submit2)

----------------------------------------------------------------------------
(* The matcher on its own: one call of find_problem_recommendation with
   arguments drawn from bounded sets *)

MaxLen == 3
MaxRows == 2

\* the characters of the texts: letters in both cases and the two separators
TextChars == {"a", "b", "B", " ", ","}
MatcherTexts == UNION {[1..n -> TextChars] : n \in 0..MaxLen}

\* the values a caller can hand over as user_problem_text
MatcherValues ==
    {StrValue(t) : t \in MatcherTexts}
        \cup {NoneValue, IntValue(0), IntValue(5),
              ListValue(<<>>), ListValue(<<"a">>)}

\* the keyword tables: up to MaxRows rows of one keyword each, the empty
\* table, and None for a table that was never loaded
Keywords == {<<"a">>, <<"B">>, <<"a", "b">>, <<"a", ",", "b">>}
KeywordRows ==
    UNION {[1..n -> {[problem_keyword |-> k] : k \in Keywords}] : n \in 0..MaxRows}
MatcherTables == {Table(TRUE, rows) : rows \in KeywordRows} \cup {Table(FALSE, <<>>)}

MatcherInit ==
    /\ missing = {}
    /\ stage = 0
    /\ form_data = EmptyDict
    /\ clicked = "none"
    /\ submitted = EmptyDict
    /\ pending = TRUE
    /\ status = "start"
    /\ rendered = {}
    /\ calls = <<>>
    /\ results = <<>>
    /\ goal_read = <<>>
    /\ built = <<>>
    /\ shown = <<>>
    /\ path = <<0>>
    /\ prevPath = <<>>
    /\ prevTime = None
    /\ \E v \in MatcherValues, t \in MatcherTables :
           lookup = [phase |-> "call", value |-> v, table |-> t,
                     raised |-> FALSE, row |-> 0]

\* the call runs to its return or to its exception
Match ==
    /\ lookup.phase = "call"
    /\ LET outcome == matcher_call(lookup.value, lookup.table)
       IN lookup' = [lookup EXCEPT !.phase = "done",
                                   !.raised = outcome.raised,
                                   !.row = outcome.row]
    /\ UNCHANGED <<missing, stage, form_data, clicked, submitted, pending,
                   status, rendered, calls, results, goal_read, built, shown,
                   path, prevPath, prevTime>>

MatcherNext == Match

MatcherSpec == MatcherInit /\ [][MatcherNext]_vars

----------------------------------------------------------------------------
(* Types *)

TypeOK ==
    /\ missing \in SUBSET DataFiles
    /\ stage \in 0..3
    /\ DOMAIN form_data \subseteq
           {"role", "method", "time", "problem", "expertise",
            "point_a", "point_b", "method_desc", "goal"}
    /\ DOMAIN submitted \subseteq DOMAIN form_data
    /\ pending \in BOOLEAN
    /\ status \in {"start", "done", "rerun", "stopped", "exception"}
    /\ Len(calls) <= 2

----------------------------------------------------------------------------
(* Properties *)

\* a step that is the script run the given widget triggered
UserRun(button) == ~pending /\ pending' /\ clicked' = button

Goal == Get(form_data, "goal", None)
Time == Get(form_data, "time", None)

\* the data files were not both found, so load_data returned (None, None)
LoadFailed == missing # {}

\* C1: every stage-0 submission whose time answer is "3-4 hours a week",
\* whatever the other answers, leads from stage 0 to stage 1, the decision
\* stage, and so never directly to the terminal stage.
C1_ThreeFourHoursToDecision ==
    [][(UserRun(NextStep) /\ Get(submitted', "time", None) = T34)
           => (stage = 0 /\ stage' = 1)]_vars

C1_Witness ==
    /\ clicked = NextStep /\ pending
    /\ submitted["time"] = T34
    /\ submitted["role"] = "Dermatologist"
    /\ submitted["problem"] # <<>>
    /\ stage = 1

\* C2: every stage-0 submission whose time answer is "8-10 hours a week"
\* leads to stage 2; on that run the stage-2 submission sets the goal to
\* "full_program", and the goal is never "single_lesson" or "combo" while the
\* stored time answer is "8-10 hours a week".
C2_EightTenHoursToFullProgram ==
    /\ [][(UserRun(NextStep) /\ Get(submitted', "time", None) = T810)
              => (stage = 0 /\ stage' = 2)]_vars
    /\ [][(UserRun(GenerateButton) /\ Time = T810)
              => Get(form_data', "goal", None) = "full_program"]_vars
    /\ [](Time = T810 => Goal \notin {"single_lesson", "combo"})
    /\ []((Time = T810 /\ stage = 3) => Goal = "full_program")

C2_Witness ==
    /\ Time = T810
    /\ stage = 3
    /\ path = <<0, 2, 3>>
    /\ Goal = "full_program"

\* a required field of the submitted form is missing: role unselected, or
\* problem or expertise empty, at stage 0; an empty text at stage 2
MissingRequired(button, answers) ==
    \/ /\ button = NextStep
       /\ \/ answers["role"] = None
          \/ answers["problem"] = <<>>
          \/ answers["expertise"] = ""
    \/ /\ button = GenerateButton
       /\ \/ answers["point_a"] = ""
          \/ answers["point_b"] = ""
          \/ answers["method_desc"] = ""

\* C3: a submission of the stage-0 or the stage-2 form with a required field
\* missing leaves the stage and the accumulated answers unchanged.
C3_InvalidSubmissionRejected ==
    [][(/\ ~pending
        /\ clicked' \in {NextStep, GenerateButton}
        /\ DOMAIN submitted' # {}
        /\ MissingRequired(clicked', submitted'))
           => (stage' = stage /\ form_data' = form_data)]_vars

\* the elements that belong to the wizard's stages
WizardElements ==
    {NextStep, SingleLessonButton, FullProgramButton, GenerateButton,
     "blueprint", StartOverButton}

\* C4: when loading a reference table failed, no script run renders the
\* stage-0 form or anything of a later stage.
C4_LoadFailureHalts == LoadFailed => rendered \cap WizardElements = {}

TerminalPaths == {<<0, 3>>, <<0, 1, 3>>, <<0, 1, 2, 3>>, <<0, 2, 3>>}

AnswerKeys ==
    {"role", "method", "time", "problem", "expertise",
     "point_a", "point_b", "method_desc", "goal"}

\* C6: after Start Over at the terminal stage the stage is 0 and no key
\* survives in the answers, whichever of the four paths led to the terminal
\* stage.
C6_StartOverClearsEverything ==
    clicked = StartOverButton =>
        /\ prevPath \in TerminalPaths
        /\ stage = 0
        /\ \A k \in AnswerKeys : k \notin DOMAIN form_data

C6_Witness ==
    /\ clicked = StartOverButton
    /\ prevPath = <<0, 1, 2, 3>>
    /\ stage = 0
    /\ DOMAIN form_data = {}

\* C7: submitting stage 2 sets the goal to "combo" when the time answer
\* stored at stage 0 is "3-4 hours a week" and to "full_program" otherwise,
\* and moves to stage 3; a goal chosen at stage 1 is overridden.
C7_Stage2SetsGoal ==
    /\ [][UserRun(GenerateButton) =>
              /\ stage = 2
              /\ stage' = 3
              /\ Get(form_data', "time", None) = Time
              /\ Get(form_data', "goal", None) =
                     IF Time = T34 THEN "combo" ELSE "full_program"]_vars
    /\ [](path = <<0, 1, 2, 3>> => Goal = "combo")

C7_Witness ==
    /\ clicked = GenerateButton
    /\ path = <<0, 1, 2, 3>>
    /\ stage = 3
    /\ Goal = "combo"

\* C8: at stage 1 "single lesson" stores the goal "single_lesson" and moves
\* to stage 3, "full program" moves to stage 2, no other stage follows
\* stage 1, and stage 1 is entered only from stage 0 by a submission whose
\* time answer is "3-4 hours a week".
C8_DecisionStage ==
    [][/\ UserRun(SingleLessonButton) =>
              (stage = 1 /\ stage' = 3
                  /\ Get(form_data', "goal", None) = "single_lesson")
       /\ UserRun(FullProgramButton) => (stage = 1 /\ stage' = 2)
       /\ (stage = 1 /\ stage' # 1) =>
              (stage' \in {2, 3}
                  /\ clicked' \in {SingleLessonButton, FullProgramButton})
       /\ (stage # 1 /\ stage' = 1) =>
              (stage = 0 /\ clicked' = NextStep
                  /\ Get(submitted', "time", None) = T34)]_vars

C8_Witness ==
    /\ clicked = SingleLessonButton
    /\ path = <<0, 1, 3>>
    /\ stage = 3
    /\ Goal = "single_lesson"
    /\ Time = T34

\* C9: with the time answer "1-2 hours" the wizard goes from stage 0
\* straight to the terminal stage, and the terminal stage issues exactly one
\* generation call, with the single-lesson payload.
C9_OneToTwoHoursSingleLesson ==
    (Time = T12 /\ stage # 0) =>
        /\ path = <<0, 3>>
        /\ stage = 3
        /\ ~pending => calls = <<single_lesson_prompt(form_data)>>

\* C10: a rendering of the terminal stage with goal "combo" issues exactly
\* two generation calls, the single-lesson payload first and the
\* full-program payload second, and shows each result under its own heading.
C10_ComboTwoCalls ==
    (stage = 3 /\ ~pending /\ Goal = "combo") =>
        /\ calls = <<single_lesson_prompt(form_data), full_program_prompt(form_data)>>
        /\ calls[1] # calls[2]
        /\ \E i, j \in 1..Len(shown) :
              /\ i < j
              /\ shown[i].kind = "heading" /\ shown[i].text = Part1Heading
              /\ shown[j].kind = "heading" /\ shown[j].text = Part2Heading
              /\ \A k \in 1..Len(shown) :
                    shown[k].kind = "content" =>
                        \/ k = i + 1 /\ shown[k].markdown.of = calls[1]
                        \/ k = j + 1 /\ shown[k].markdown.of = calls[2]

----------------------------------------------------------------------------
(* The terminal stage in sessions whose tables loaded *)

\* When both tables loaded, every terminal-stage run gets to the dispatch:
\* it issues the calls of its branch and offers Start Over.
LoadedTerminalRuns ==
    (~LoadFailed /\ stage = 3 /\ ~pending) =>
        /\ status = "done"
        /\ calls = GenerationCalls(form_data)
        /\ Len(calls) \in {1, 2}
        /\ StartOverButton \in rendered

\* When a table did not load, no terminal-stage run gets past line 146.
FailedLoadTerminalRuns ==
    (LoadFailed /\ stage = 3 /\ ~pending) =>
        /\ status = "exception"
        /\ calls = <<>>
        /\ StartOverButton \notin rendered

----------------------------------------------------------------------------
(* The payloads of the terminal stage *)

\* C11: a rendering of the terminal stage with goal "single_lesson" or with
\* time "1-2 hours" issues exactly one generation call, whose argument is the
\* single-lesson payload; no full-program payload is passed in it.
C11_SingleLessonOneCall ==
    (stage = 3 /\ ~pending /\ (Goal = "single_lesson" \/ Time = T12)) =>
        /\ Len(calls) = 1
        /\ calls[1] = single_lesson_prompt(form_data)
        /\ \A i \in 1..Len(calls) : calls[i].kind # "full_program"

\* C12: a rendering of the terminal stage with goal "full_program" issues
\* exactly one generation call, whose argument is the full-program payload
\* with the point_a, point_b and method_desc stored at stage 2; no
\* single-lesson payload is passed in it.
C12_FullProgramOneCall ==
    (stage = 3 /\ ~pending /\ Goal = "full_program") =>
        /\ Len(calls) = 1
        /\ calls[1].kind = "full_program"
        /\ calls[1].point_a = form_data["point_a"]
        /\ calls[1].point_b = form_data["point_b"]
        /\ calls[1].method_desc = form_data["method_desc"]

\* C13: every full-program payload handed to the generation call carries a
\* point_a, a point_b and a method_desc that were present and non-empty: none
\* of them is the empty string or the rendering of None.
C13_NoEmptyInterpolation ==
    \A i \in 1..Len(calls) :
        calls[i].kind = "full_program" =>
            /\ calls[i].point_a \notin {"", Format(None)}
            /\ calls[i].point_b \notin {"", Format(None)}
            /\ calls[i].method_desc \notin {"", Format(None)}

\* the result is on the page, in a container
Displayed(result) ==
    \E k \in 1..Len(shown) : shown[k].kind = "content" /\ shown[k].markdown = result

\* C17: in a combo rendering whose first generation call was made, the
\* second call, with the full-program payload, is made whether the first
\* failed or not, and every call that succeeded has its result on the page,
\* whatever happened to the other call.
C17_ComboCallsIndependent ==
    (stage = 3 /\ ~pending /\ Goal = "combo" /\ results # <<>>) =>
        /\ Len(calls) = 2
        /\ Len(results) = 2
        /\ calls[2] = full_program_prompt(form_data)
        /\ \A i \in 1..2 : HasContent(results[i]) => Displayed(results[i])

C17_Witness ==
    /\ stage = 3 /\ ~pending /\ Goal = "combo"
    /\ Len(results) = 2
    /\ ~HasContent(results[1])
    /\ HasContent(results[2])
    /\ Displayed(results[2])

\* C18: the Start Over transition has no side effect beyond the session
\* state: the script run in which Start Over is pressed hands no payload to
\* the generation backend.
C18_StartOverIssuesNoCall ==
    [][UserRun(StartOverButton) => calls' = <<>>]_vars

\* C19 as stated: no script run reads the goal key while it is unset, that
\* is, no data.get('goal') returns None.
C19_GoalNeverReadUnset ==
    \A i \in 1..Len(goal_read) : goal_read[i] # None

\* C19 as amended: a terminal rendering reads an unset goal exactly on the
\* direct path from stage 0 (time "1-2 hours"), where the read yields None
\* and the time answer selects the single-lesson branch; on every path
\* through stage 1 or stage 2 the goal is set before it is read.
C19_GoalUnsetOnlyOnDirectPath ==
    (stage = 3 /\ ~pending /\ goal_read # <<>>) =>
        /\ (\E i \in 1..Len(goal_read) : goal_read[i] = None) <=> path = <<0, 3>>
        /\ path = <<0, 3>> =>
               /\ "goal" \notin DOMAIN form_data
               /\ Time = T12
               /\ calls = <<single_lesson_prompt(form_data)>>
        /\ path # <<0, 3>> =>
               /\ "goal" \in DOMAIN form_data
               /\ \A i \in 1..Len(goal_read) : goal_read[i] = form_data["goal"]

C19_Witness ==
    /\ stage = 3 /\ ~pending
    /\ path = <<0, 3>>
    /\ Len(goal_read) = 2
    /\ goal_read[1] = None
    /\ calls = <<single_lesson_prompt(form_data)>>

\* the edges of the stage table, the reset included
StageEdges ==
    {<<0, 1>>, <<0, 2>>, <<0, 3>>, <<1, 2>>, <<1, 3>>, <<2, 3>>, <<3, 0>>}

\* C20: the stage is always one of 0, 1, 2, 3, and every change of stage is
\* one of the edges 0-1, 0-2, 0-3, 1-2, 1-3, 2-3 or 3-0.
C20_StageTable ==
    /\ [](stage \in {0, 1, 2, 3})
    /\ [][stage' # stage => <<stage, stage'>> \in StageEdges]_vars

C20_Witness ==
    /\ clicked = StartOverButton
    /\ prevPath = <<0, 2, 3>>
    /\ path = <<0>>
    /\ stage = 0

\* C16: a stage-0 submission after a Start Over that repeats the time answer
\* of the wizard run before the reset leads to the same next stage as in that
\* run; since the next stage is the same whenever the time answer is, it is
\* the same whenever all five answers are.
C16_SameAnswersSameDecision ==
    [][(UserRun(NextStep) /\ prevPath # <<>>
            /\ Get(submitted', "time", None) = prevTime)
           => stage' = prevPath[2]]_vars

C16_Witness ==
    /\ clicked = NextStep /\ pending
    /\ prevPath = <<0, 1, 2, 3>>
    /\ prevTime = T34
    /\ submitted["time"] = T34
    /\ stage = 1

\* the call of the matcher that is being followed has ended
MatcherDone == lookup.phase = "done"

\* the input of that call is the empty string or no string at all
EmptyOrNonString ==
    \/ lookup.value.type # "str"
    \/ lookup.value.type = "str" /\ lookup.value.chars = <<>>

\* the pieces a text falls into when split on the given separators: its
\* maximal runs of other characters
Runs(t, separators) ==
    LET n == Len(t)
    IN { SubSeq(t, p[1], p[2]) :
           p \in { q \in (1..n) \X (1..n) :
                     /\ q[1] <= q[2]
                     /\ \A i \in q[1]..q[2] : t[i] \notin separators
                     /\ q[1] = 1 \/ t[q[1] - 1] \in separators
                     /\ q[2] = n \/ t[q[2] + 1] \in separators } }

\* the lowercase words of a text, split on whitespace and commas
Tokens(text) == Runs(LowerText(text), {" ", ","})

\* the text of the call shares a token with the keywords of some row
SharesToken ==
    \E i \in 1..Len(lookup.table.rows) :
        Tokens(lookup.value.chars) \cap Tokens(lookup.table.rows[i].problem_keyword) # {}

\* the keyword of some row, case-folded, occurs in the case-folded text
KeywordOccurs ==
    \E i \in 1..Len(lookup.table.rows) :
        IsSubstring(LowerText(lookup.table.rows[i].problem_keyword),
                    LowerText(lookup.value.chars))

\* C14: a call of the matcher whose input text is empty or is not a string
\* returns None and raises nothing, whatever the keyword table: rows, no
\* rows, or no table at all.
C14_EmptyOrNonStringIsNoMatch ==
    (MatcherDone /\ EmptyOrNonString) => (~lookup.raised /\ lookup.row = 0)

C14_Witness ==
    /\ MatcherDone
    /\ lookup.value = IntValue(5)
    /\ lookup.table.loaded
    /\ Len(lookup.table.rows) >= 1
    /\ ~lookup.raised
    /\ lookup.row = 0

\* C15 as stated: the matcher returns None for every input text that shares
\* no token with the keywords of any row.
C15_NoSharedTokenIsNoMatch ==
    (MatcherDone /\ lookup.value.type = "str" /\ lookup.table.loaded /\ ~SharesToken)
        => (~lookup.raised /\ lookup.row = 0)

\* C15 as amended: the matcher returns None for every input text in which no
\* row's keyword, case-folded, occurs as a substring; sharing no whole token
\* with a keyword is not enough, since a keyword may occur inside a word.
C15_NoKeywordInTextIsNoMatch ==
    (MatcherDone /\ lookup.value.type = "str" /\ lookup.table.loaded /\ ~KeywordOccurs)
        => (~lookup.raised /\ lookup.row = 0)

C15_Witness ==
    /\ MatcherDone
    /\ lookup.value = StrValue(<<"b", "a">>)
    /\ lookup.table = Table(TRUE, <<[problem_keyword |-> <<"a", "b">>]>>)
    /\ ~SharesToken
    /\ ~KeywordOccurs
    /\ lookup.row = 0

\* the keys the stage-0 form stores
Stage0Keys == {"role", "method", "time", "problem", "expertise"}

\* C21: a step that is not the run of Start Over removes no key from the
\* answers, and the runs the stage-1 buttons and the stage-2 form trigger
\* leave the five values stored at stage 0 as they were.
C21_AnswersAccumulate ==
    [][/\ ~UserRun(StartOverButton) => DOMAIN form_data \subseteq DOMAIN form_data'
       /\ (stage \in {1, 2} /\ ~pending /\ pending')
              => \A k \in Stage0Keys :
                     /\ k \in DOMAIN form_data
                     /\ k \in DOMAIN form_data'
                     /\ form_data'[k] = form_data[k]]_vars

C21_Witness ==
    /\ clicked = GenerateButton /\ pending
    /\ path = <<0, 1, 2, 3>>
    /\ DOMAIN form_data = AnswerKeys
    /\ form_data["goal"] = "combo"
    /\ form_data["time"] = T34

\* the keyword of row i of the call's table, case-folded, occurs in the
\* case-folded text of the call
RowMatches(i) ==
    IsSubstring(LowerText(lookup.table.rows[i].problem_keyword),
                LowerText(lookup.value.chars))

\* C22: a call of the matcher on a text and a keyword table returns the
\* earliest row in table order whose keyword, case-folded, occurs in the
\* case-folded text, and returns None only when no row's keyword does.
C22_FirstSubstringMatchWins ==
    (MatcherDone /\ lookup.value.type = "str" /\ lookup.table.loaded)
        => /\ ~lookup.raised
           /\ lookup.row \in 0..Len(lookup.table.rows)
           /\ lookup.row # 0
                  => /\ RowMatches(lookup.row)
                     /\ \A j \in 1..(lookup.row - 1) : ~RowMatches(j)
           /\ lookup.row = 0
                  => \A j \in 1..Len(lookup.table.rows) : ~RowMatches(j)

C22_Witness ==
    /\ MatcherDone
    /\ lookup.value = StrValue(<<"b", "a">>)
    /\ lookup.table = Table(TRUE, <<[problem_keyword |-> <<"B">>],
                                    [problem_keyword |-> <<"a">>]>>)
    /\ RowMatches(1) /\ RowMatches(2)
    /\ lookup.row = 1

Range(f) == {f[i] : i \in DOMAIN f}

\* the keyword set of a row: its keyword field, case-folded, split on commas
KeywordSet(keyword) == Runs(LowerText(keyword), {","})

\* the size of the intersection of row i's keyword set with the tokens of the
\* text of the call
Overlap(i) ==
    Cardinality(KeywordSet(lookup.table.rows[i].problem_keyword)
                    \cap Tokens(lookup.value.chars))

\* the row the best-overlap rule picks from row i on, given the best row so
\* far: a later row replaces it only with a strictly greater intersection
RECURSIVE BestOverlapFrom(_, _)
BestOverlapFrom(i, best) ==
    IF i > Len(lookup.table.rows) THEN best
    ELSE IF Overlap(i) > (IF best = 0 THEN 0 ELSE Overlap(best))
         THEN BestOverlapFrom(i + 1, i)
         ELSE BestOverlapFrom(i + 1, best)

\* C23 as stated: the matcher returns the row whose keyword set has the
\* strictly largest intersection with the tokens of the text, the first-seen
\* row among equals, and none if every intersection is empty.
C23_BestOverlapWins ==
    (MatcherDone /\ lookup.value.type = "str" /\ lookup.table.loaded)
        => (~lookup.raised /\ lookup.row = BestOverlapFrom(1, 0))

\* C23 as amended: the matcher returns the first row in table order whose
\* whole keyword field, case-folded, occurs in the case-folded text, and none
\* if there is no such row; intersection sizes are not compared, so no later
\* row replaces it, and a row of a single keyword that is a token of the text
\* is returned unless an earlier row matches.
C23_FirstMatchNotBestOverlap ==
    (MatcherDone /\ lookup.value.type = "str" /\ lookup.table.loaded)
        => /\ ~lookup.raised
           /\ \A i \in 1..Len(lookup.table.rows) :
                  /\ RowMatches(i) => lookup.row \in 1..i
                  /\ ("," \notin Range(lookup.table.rows[i].problem_keyword)
                          /\ Overlap(i) > 0)
                         => lookup.row \in 1..i
           /\ lookup.row # 0 => RowMatches(lookup.row)

\* the text "a,b" against the keywords "a" and "a,b": the second row has the
\* larger intersection and the first one is returned
C23_Witness ==
    /\ MatcherDone
    /\ lookup.value = StrValue(<<"a", ",", "b">>)
    /\ lookup.table = Table(TRUE, <<[problem_keyword |-> <<"a">>],
                                    [problem_keyword |-> <<"a", ",", "b">>]>>)
    /\ Overlap(1) = 1 /\ Overlap(2) = 2
    /\ lookup.row = 1

\* the page of the terminal stage is what the last script run left
TerminalRendering == ~pending /\ stage = 3

EducationalTasks == <<"lesson length 5-12 minutes", "4-5 concrete lesson ideas">>
HandsOnTasks == <<"lesson description 3-4 sentences", "4 titles with taglines">>

\* the single-lesson prompt p is the template the method answer calls for
TemplateFollowsMethod(p) ==
    IF Get(form_data, "method", None) = "Educational content"
    THEN p.template = "educational" /\ p.tasks = EducationalTasks
    ELSE p.template = "hands_on" /\ p.tasks = HandsOnTasks

\* C24: every rendering of the terminal stage builds exactly one
\* single-lesson prompt; it is the educational template (lesson length 5-12
\* minutes, 4-5 ideas) when the method answer is "Educational content" and
\* the hands-on template (3-4 sentence description, 4 titles with taglines)
\* for every other method, and it is the single-lesson payload sent, if any.
C24_TemplateByMethod ==
    TerminalRendering
        => /\ Len(built) = 1
           /\ TemplateFollowsMethod(built[1])
           /\ \A i \in 1..Len(calls) :
                  calls[i].kind = "single_lesson" => calls[i] = built[1]

\* C25: every rendering of the terminal stage takes one of the three
\* branches of the dispatch, the (goal, time) pair of the answers matching
\* one of them, and so issues at least one generation call.
C25_DispatchCoversTerminal ==
    TerminalRendering
        => /\ Dispatch(form_data) \in {"single_lesson", "full_program", "combo"}
           /\ Len(calls) >= 1
           /\ calls = GenerationCalls(form_data)

DeepDiveKeys == {"point_a", "point_b", "method_desc"}

\* C26: in every terminal state the goal follows from the path taken: it is
\* "combo" exactly when the time answer is "3-4 hours a week" and stage 2 was
\* visited, "full_program" exactly when the time answer is "8-10 hours a
\* week", "single_lesson" exactly when the time answer is "3-4 hours a week"
\* and stage 2 was not visited; a run through the full-program button of
\* stage 1 is dispatched to the combo branch, never to the full-program one,
\* and the three deep-dive answers are present exactly when the goal is
\* "combo" or "full_program".
C26_GoalFollowsPath ==
    stage = 3
        => /\ Goal = "combo" <=> (Time = T34 /\ 2 \in Range(path))
           /\ Goal = "full_program" <=> Time = T810
           /\ Goal = "single_lesson" <=> (Time = T34 /\ 2 \notin Range(path))
           /\ path = <<0, 1, 2, 3>>
                  => /\ Dispatch(form_data) = "combo"
                     /\ \A i \in 1..Len(shown) :
                            shown[i].kind = "heading" => shown[i].text # FullHeading
                     /\ calls # <<>> => Len(calls) = 2
           /\ IF Goal \in {"combo", "full_program"}
              THEN DeepDiveKeys \subseteq DOMAIN form_data
              ELSE DeepDiveKeys \cap DOMAIN form_data = {}

C26_Witness ==
    /\ TerminalRendering
    /\ path = <<0, 1, 2, 3>>
    /\ Goal = "combo"
    /\ Time = T34
    /\ Len(calls) = 2
    /\ DeepDiveKeys \subseteq DOMAIN form_data

\* C27: between resets the stage only increases, so the stages visited since
\* the last reset are strictly increasing and the terminal stage is reached
\* after at most three user actions; the run of Start Over is the only step
\* that lowers the stage; and with a user who goes on submitting, every
\* wizard run at stage 0 eventually reaches the terminal stage.
C27_StageIncreasesToTerminal ==
    /\ [][/\ stage' < stage => UserRun(StartOverButton)
          /\ (stage' # stage /\ ~UserRun(StartOverButton))
                 => (stage' > stage /\ ~pending /\ pending')]_vars
    /\ [](/\ path[Len(path)] = stage
          /\ \A i \in 1..(Len(path) - 1) : path[i] < path[i + 1]
          /\ Len(path) - 1 <= 3)
    /\ (stage = 0 ~> stage = 3)

C27_Witness ==
    /\ stage = 3
    /\ path = <<0, 1, 2, 3>>
    /\ prevPath = <<0, 3>>

====
